---- MODULE Spec2Model ----
(***************************************************************************)
(* Burst sampler: the gateware state machine of                            *)
(* artiq/gateware/adc/sampling_burst_controller.py and the core device     *)
(* driver of artiq/coredevice/burst_sampler.py.                            *)
(*                                                                         *)
(* The gateware is synchronous logic: one Tick is one rio/rio_phy clock    *)
(* cycle, every register takes its next value from the current values.     *)
(***************************************************************************)
EXTENDS Integers, Sequences, FiniteSets, TLC

--------------------------------------------------------------------------
(* Bounds of the model                                                     *)

\* longest ADC conversion, in clock cycles, the model lets the serializer take
MaxAdcLatency == 2
\* largest small SampleCount payload put on the bus (besides the extremes)
MaxSmallCount == 3
\* largest ConversionTimeout payload put on the bus
MaxTimeout == 2

--------------------------------------------------------------------------
(* Arithmetic helpers                                                      *)

RECURSIVE Pow2(_)
Pow2(n) == IF n = 0 THEN 1 ELSE 2 * Pow2(n - 1)

\* migen bits_for(n) for n >= 0: the bits needed to hold n
RECURSIVE bits_for(_)
bits_for(n) == IF n < 2 THEN 1 ELSE 1 + bits_for(n \div 2)

\* 2 ** ceil(log2(n)): the least power of two that is >= n
RECURSIVE RoundUpPow2(_, _)
RoundUpPow2(n, p) == IF p >= n THEN p ELSE RoundUpPow2(n, 2 * p)

Min(a, b) == IF a < b THEN a ELSE b
Max(a, b) == IF a > b THEN a ELSE b

--------------------------------------------------------------------------
(* Gateware parameters: SamplingBurstController.__init__                   *)

max_samples_arg == 1024
channels == 8
channel_width == 16
writes_per_sample == (channels * channel_width) \div 32
fifo_depth == RoundUpPow2(writes_per_sample * max_samples_arg, 1)
max_samples == fifo_depth \div writes_per_sample

\* rtlink.OInterface(data_width=16, address_width=3)
o_data_width == 16
o_address_width == 3

\* samples = Signal(min=0, max=max_samples - 1): bits_for(max - 1) bits
samples_width == bits_for((max_samples - 1) - 1)
\* conv_timeout = Signal(16)
conv_timeout_width == 16
\* mux_cnt = Signal(max=writes_per_sample+1)
mux_cnt_width == bits_for((writes_per_sample + 1) - 1)

FsmStates == {"idle", "start_acq", "acq", "read", "conv_timeout"}

--------------------------------------------------------------------------
VARIABLES
    \* gateware registers
    fsm,                \* state of the FSM
    trigger,            \* 1-bit trigger register
    samples,            \* SampleCount register
    conv_timeout,       \* ConversionTimeout register
    sample_cnt,
    mux_cnt,
    conv_timeout_cnt,
    build,              \* how the build evaluates "samples-1": "verilog" or "sim"
    \* ADC serializer (external to the controller)
    adc_wait,           \* cycles until the serializer is done; 0: done = 1
    adc_data,           \* the eight lanes of the last conversion
    \* observation of the isolated state machine
    req_samples,        \* last payload written to SampleCount, before truncation
    burst,              \* "none", "running" or "done"
    burst_req,          \* req_samples when the trigger was accepted
    stb_count,          \* cycles with rtlink.i.stb since the trigger was accepted
    burst_first,        \* words put into the input FIFO before the burst
    conv_log,           \* the conversions of the burst, in order
    wait_cycles,        \* cycles spent in conv_timeout since the last read cycle
    bus,                \* what rtlink.o presented in the last cycle
    \* core device driver (class Sampler)
    gains,              \* self.gains: shadow of the PGIA gain register
    samples_num,        \* self.samples_num: pending sample count
    self_samples,       \* self.samples: MAX_SAMPLES*4 words, as a run-length list
    call,               \* the driver call in progress (blocked on the read channel)
    ret,                \* value returned by the last completed call
    \* RTIO and the PGIA bus
    now,                \* time cursor now_mu(), relative to the RTIO counter
    outq,               \* output events submitted and not yet executed
    ififo,              \* input FIFO of the burst channel
    pgia,               \* contents of the PGIA shift register
    \* observation of the driver
    trace,              \* the last driver call: arguments, writes, outcome
    prev,               \* the gain call before the last one
    pushed,             \* words put into the input FIFO so far
    popped,             \* words read from the input FIFO so far
    calls               \* driver calls made so far

hwVars == <<fsm, trigger, samples, conv_timeout, sample_cnt, mux_cnt,
            conv_timeout_cnt, build, adc_wait, adc_data>>
obsVars == <<req_samples, burst, burst_req, stb_count, burst_first, conv_log,
             wait_cycles, bus>>
drvVars == <<gains, samples_num, self_samples, call, ret>>
rtioVars == <<now, outq, ififo, pgia>>
logVars == <<trace, prev, pushed, popped, calls>>
vars == <<hwVars, obsVars, drvVars, rtioVars, logVars>>

--------------------------------------------------------------------------
(* ADC serializer, lanes of 16-bit two's complement                        *)

Lanes == 0 .. (channels - 1)

Signed16(v) == LET m == v % Pow2(16) IN IF m >= Pow2(15) THEN m - Pow2(16) ELSE m

\* conversion results fed to the model: frame k puts a different signed code
\* on every lane, frame 1 the two extreme codes among them
AdcFrame(k) ==
    [c \in Lanes |->
        IF k = 1 /\ c = 0 THEN -Pow2(15)
        ELSE IF k = 1 /\ c = 1 THEN Pow2(15) - 1
        ELSE Signed16(k * 9029 + c * 12347)]

adc_done == IF adc_wait = 0 THEN 1 ELSE 0

\* the serializer: a start pulse while idle begins a conversion that takes
\* lat cycles; the lanes hold frame when it ends
AdcStep(start, lat, frame) ==
    IF adc_wait = 0
    THEN /\ adc_wait' = IF start = 1 THEN lat ELSE 0
         /\ adc_data' = adc_data
    ELSE /\ adc_wait' = adc_wait - 1
         /\ adc_data' = IF adc_wait = 1 THEN frame ELSE adc_data

--------------------------------------------------------------------------
(* Configuration interface                                                 *)

\* we = ~rtlink.o.address[-1]
we(address) == 1 - ((address \div Pow2(o_address_width - 1)) % 2)
\* sel = rtlink.o.address[:-1]
sel(address) == address % Pow2(o_address_width - 1)

\* the configuration interface decoding sel without the write enable
ConfigStep_IgnoresWe(stb, address, payload) ==
    LET hit(r) == stb = 1 /\ sel(address) = r
    IN  /\ trigger' = IF hit(0) THEN payload % 2
                      ELSE IF hit(1) \/ hit(2) THEN trigger
                      ELSE 0
        /\ conv_timeout' = IF ~hit(0) /\ hit(1) THEN payload % Pow2(conv_timeout_width)
                           ELSE conv_timeout
        /\ samples' = IF ~hit(0) /\ ~hit(1) /\ hit(2) THEN payload % Pow2(samples_width)
                      ELSE samples

ConfigStep(stb, address, payload) ==
    LET hit(r) == stb = 1 /\ we(address) = 1 /\ sel(address) = r
    IN  /\ trigger' = IF hit(0) THEN payload % 2
                      ELSE IF hit(1) \/ hit(2) THEN trigger
                      ELSE 0
        /\ conv_timeout' = IF ~hit(0) /\ hit(1) THEN payload % Pow2(conv_timeout_width)
                           ELSE conv_timeout
        /\ samples' = IF ~hit(0) /\ ~hit(1) /\ hit(2) THEN payload % Pow2(samples_width)
                      ELSE samples

--------------------------------------------------------------------------
(* Control logic                                                           *)

\* data = Array([Cat(data[0], data[1]), ...]): lane 2k in bits 15..0, lane
\* 2k+1 in bits 31..16 of word k.  A 32-bit word is written <<lo, hi>>, its
\* two 16-bit halves.
Code16(v) == v % Pow2(channel_width)
\* the array with the two lanes of every word exchanged
data_Swapped(k) == <<Code16(adc_data[2 * k + 1]), Code16(adc_data[2 * k])>>
data(k) == <<Code16(adc_data[2 * k]), Code16(adc_data[2 * k + 1])>>

\* rtlink.i.stb and rtlink.i.data of the current cycle
i_stb == IF fsm = "read" THEN 1 ELSE 0
i_data == IF mux_cnt < writes_per_sample THEN data(mux_cnt)
          ELSE data(writes_per_sample - 1)

adc_start == IF fsm = "start_acq" THEN 1 ELSE 0

\* sample_cnt == samples-1.  Migen gives the difference one bit more than
\* its operands and its simulator evaluates it on unbounded integers; the
\* Verilog it emits, (sample_cnt == (samples - 1'd1)), evaluates it in the
\* width of the operands, where 0 - 1 wraps.
SamplesMinusOne ==
    IF build = "verilog" THEN (samples - 1) % Pow2(samples_width) ELSE samples - 1
LastSample == sample_cnt = SamplesMinusOne

\* the read state without the branch for a ConversionTimeout of zero
FsmStep_AlwaysWaits ==
    CASE fsm = "idle" ->
            /\ fsm' = IF trigger = 1 THEN "start_acq" ELSE "idle"
            /\ sample_cnt' = IF trigger = 1 THEN 0 ELSE sample_cnt
            /\ UNCHANGED <<mux_cnt, conv_timeout_cnt>>
      [] fsm = "start_acq" ->
            /\ fsm' = "acq"
            /\ UNCHANGED <<sample_cnt, mux_cnt, conv_timeout_cnt>>
      [] fsm = "acq" ->
            /\ fsm' = IF adc_done = 1 THEN "read" ELSE "acq"
            /\ mux_cnt' = IF adc_done = 1 THEN 0 ELSE mux_cnt
            /\ UNCHANGED <<sample_cnt, conv_timeout_cnt>>
      [] fsm = "read" ->
            /\ mux_cnt' = (mux_cnt + 1) % Pow2(mux_cnt_width)
            /\ IF mux_cnt = writes_per_sample - 1
               THEN IF LastSample
                    THEN /\ fsm' = "idle"
                         /\ UNCHANGED <<sample_cnt, conv_timeout_cnt>>
                    ELSE /\ fsm' = "conv_timeout"
                         /\ sample_cnt' = (sample_cnt + 1) % Pow2(samples_width)
                         /\ conv_timeout_cnt' = conv_timeout
               ELSE /\ fsm' = "read"
                    /\ UNCHANGED <<sample_cnt, conv_timeout_cnt>>
      [] fsm = "conv_timeout" ->
            /\ fsm' = IF conv_timeout_cnt = 0 THEN "start_acq" ELSE "conv_timeout"
            /\ conv_timeout_cnt' = IF conv_timeout_cnt = 0 THEN conv_timeout_cnt
                                   ELSE conv_timeout_cnt - 1
            /\ UNCHANGED <<sample_cnt, mux_cnt>>

FsmStep ==
    CASE fsm = "idle" ->
            /\ fsm' = IF trigger = 1 THEN "start_acq" ELSE "idle"
            /\ sample_cnt' = IF trigger = 1 THEN 0 ELSE sample_cnt
            /\ UNCHANGED <<mux_cnt, conv_timeout_cnt>>
      [] fsm = "start_acq" ->
            /\ fsm' = "acq"
            /\ UNCHANGED <<sample_cnt, mux_cnt, conv_timeout_cnt>>
      [] fsm = "acq" ->
            /\ fsm' = IF adc_done = 1 THEN "read" ELSE "acq"
            /\ mux_cnt' = IF adc_done = 1 THEN 0 ELSE mux_cnt
            /\ UNCHANGED <<sample_cnt, conv_timeout_cnt>>
      [] fsm = "read" ->
            /\ mux_cnt' = (mux_cnt + 1) % Pow2(mux_cnt_width)
            /\ IF mux_cnt = writes_per_sample - 1
               THEN IF LastSample
                    THEN /\ fsm' = "idle"
                         /\ UNCHANGED <<sample_cnt, conv_timeout_cnt>>
                    ELSE IF conv_timeout = 0
                    THEN /\ fsm' = "start_acq"
                         /\ sample_cnt' = (sample_cnt + 1) % Pow2(samples_width)
                         /\ UNCHANGED conv_timeout_cnt
                    ELSE /\ fsm' = "conv_timeout"
                         /\ sample_cnt' = (sample_cnt + 1) % Pow2(samples_width)
                         /\ conv_timeout_cnt' = conv_timeout
               ELSE /\ fsm' = "read"
                    /\ UNCHANGED <<sample_cnt, conv_timeout_cnt>>
      [] fsm = "conv_timeout" ->
            /\ fsm' = IF conv_timeout_cnt = 0 THEN "start_acq" ELSE "conv_timeout"
            /\ conv_timeout_cnt' = IF conv_timeout_cnt = 0 THEN conv_timeout_cnt
                                   ELSE conv_timeout_cnt - 1
            /\ UNCHANGED <<sample_cnt, mux_cnt>>

\* one clock cycle of the controller with rtlink.o presenting (stb, address,
\* payload) and the serializer taking lat cycles for a conversion it starts
Cycle(stb, address, payload, lat, frame) ==
    /\ ConfigStep(stb, address, payload)
    /\ FsmStep
    /\ AdcStep(adc_start, lat, frame)
    /\ UNCHANGED build

--------------------------------------------------------------------------
(* Core device driver: artiq/coredevice/burst_sampler.py                   *)

\* MIN_PERIOD = 824 * ns, CONV_TIMEOUT_MULT = 8 * ns: the integer factors
MIN_PERIOD_NS == 824
CONV_TIMEOUT_MULT_NS == 8
MAX_SAMPLES == 1024

TRIGGER_ADDRESS == 0
CONV_TIMEOUT_ADDRESS == 1
SAMPLES_ADDRESS == 2

\* self.burst_channel = channel
burst_channel == 1
\* self.ref_period_mu = core.seconds_to_mu(core.coarse_ref_period)
ref_period_mu == 8

\* self.samples = [0] * MAX_SAMPLES * 4
samples_len == MAX_SAMPLES * 4

(* Run-length lists: [head |-> s, tail |-> n, fill |-> v] is the list s      *)
(* followed by n copies of v.  self.samples and the lists get_samples       *)
(* returns are 4096 and 1024 entries long and all but a prefix is zero.     *)
ZList(s, n, v) == [head |-> s, tail |-> n, fill |-> v]
ZLen(z) == Len(z.head) + z.tail
ZAt(z, i) == IF i <= Len(z.head) THEN z.head[i] ELSE z.fill

\* self.samples[idx] = val, idx counted from 0
ZStore(z, idx, val) ==
    IF idx < Len(z.head)
    THEN [z EXCEPT !.head = [@ EXCEPT ![idx + 1] = val]]
    ELSE [z EXCEPT !.head = Append(@ \o [i \in 1 .. (idx - Len(z.head)) |-> z.fill], val),
                   !.tail = @ - (idx - Len(z.head)) - 1]

(* Bit operations on naturals *)
RECURSIVE BitAnd(_, _)
BitAnd(a, b) ==
    IF a = 0 \/ b = 0 THEN 0
    ELSE (IF a % 2 = 1 /\ b % 2 = 1 THEN 1 ELSE 0) + 2 * BitAnd(a \div 2, b \div 2)

RECURSIVE BitOr(_, _)
BitOr(a, b) ==
    IF a = 0 THEN b
    ELSE IF b = 0 THEN a
    ELSE (IF a % 2 = 1 \/ b % 2 = 1 THEN 1 ELSE 0) + 2 * BitOr(a \div 2, b \div 2)

\* a & ~m for naturals a, m
BitClear(a, m) == a - BitAnd(a, m)

--------------------------------------------------------------------------
(* Gain control: set_gain_mu, get_gains_mu                                 *)

Channels == 0 .. (channels - 1)

\* (gains >> (channel * 2)) & 0b11
GainField(g, channel) == (g \div Pow2(channel * 2)) % 4

\* the 16 bits a 16-bit SPI transfer of write(g << 16) shifts out: bits
\* 31..16 of the 32-bit data word
SpiWord(g) == g % Pow2(16)

\* set_gain_mu without clearing the channel's field first
SetGainValue_NoClear(g, channel, gain) == BitOr(g, gain * Pow2(channel * 2))

\* gains &= ~(0b11 << (channel*2)); gains |= gain << (channel*2)
SetGainValue(g, channel, gain) ==
    BitOr(BitClear(g, 3 * Pow2(channel * 2)), gain * Pow2(channel * 2))

\* the PGIA shift register on a 16-bit transfer: the word shifted in
\* replaces its contents, the old contents are shifted out
PgiaShiftIn(word) == word
PgiaShiftOut == pgia

GainCall(op, channel, gain, result) ==
    [op |-> op, channel |-> channel, gain |-> gain, before |-> gains,
     pushed |-> SpiWord(IF op = "set_gain_mu" THEN result ELSE gains),
     ret |-> result]

NoCall == [op |-> "none"]

CallSetGainMu(channel, gain) ==
    LET g == SetGainValue(gains, channel, gain)
    IN  /\ call.op = "idle"
        /\ pgia' = PgiaShiftIn(SpiWord(g))
        /\ gains' = g
        /\ ret' = "None"
        /\ prev' = trace
        /\ trace' = GainCall("set_gain_mu", channel, gain, g)
        /\ calls' = calls + 1
        /\ UNCHANGED <<samples_num, self_samples, call, now, outq, ififo, pushed, popped>>

CallGetGainsMu ==
    LET r == BitAnd(PgiaShiftOut, 65535)
    IN  /\ call.op = "idle"
        /\ pgia' = PgiaShiftIn(SpiWord(gains))
        /\ gains' = r
        /\ ret' = r
        /\ prev' = trace
        /\ trace' = GainCall("get_gains_mu", 0, 0, r)
        /\ calls' = calls + 1
        /\ UNCHANGED <<samples_num, self_samples, call, now, outq, ififo, pushed, popped>>

--------------------------------------------------------------------------
(* RTIO: the time cursor and the two channels of the burst PHY              *)

\* core.break_realtime(): the cursor is moved to the RTIO counter plus a
\* margin unless it is already later.  Time is kept relative to the counter.
break_realtime_margin == 16
BreakRealtime(t) == Max(t, break_realtime_margin)

\* (self.burst_channel << 8) | address
Target(address) == BitOr(burst_channel * Pow2(8), address)

\* rtio_output(target, data) with the cursor at t: an event for timestamp t;
\* a timestamp the counter has reached already underflows
RtioUnderflow(t) == t <= 0
RtioEvent(t, address, payload) == [due |-> t, target |-> Target(address), data |-> payload]

\* rtio_input_data(channel): the oldest word of the input FIFO as a signed
\* 32-bit integer
Int32OfWord(w) ==
    w[1] + Pow2(16) * (IF w[2] >= Pow2(15) THEN w[2] - Pow2(16) ELSE w[2])

--------------------------------------------------------------------------
(* Python floats (IEEE 754 binary64, round to nearest even) as far as the  *)
(* period arithmetic of prepare_sampling needs them                        *)

\* a natural of any size is a little-endian sequence of 10-bit limbs
LimbBase == Pow2(10)

RECURSIVE BitLen(_)
BitLen(n) == IF n = 0 THEN 0 ELSE 1 + BitLen(n \div 2)

RECURSIVE TwoAdic(_)
TwoAdic(c) == IF c % 2 = 0 THEN 1 + TwoAdic(c \div 2) ELSE 0

RECURSIVE BigOfNat(_)
BigOfNat(n) == IF n = 0 THEN <<>> ELSE <<n % LimbBase>> \o BigOfNat(n \div LimbBase)

RECURSIVE BigToNat(_)
BigToNat(x) == IF x = <<>> THEN 0 ELSE Head(x) + LimbBase * BigToNat(Tail(x))

RECURSIVE BigTrim(_)
BigTrim(x) ==
    IF x # <<>> /\ x[Len(x)] = 0 THEN BigTrim(SubSeq(x, 1, Len(x) - 1)) ELSE x

BigBits(x) ==
    LET t == BigTrim(x)
    IN  IF t = <<>> THEN 0 ELSE (Len(t) - 1) * 10 + BitLen(t[Len(t)])

\* x * c + carry for a multiplier c below 2^21
RECURSIVE BigMulSmall(_, _, _)
BigMulSmall(x, c, carry) ==
    IF x = <<>> THEN BigOfNat(carry)
    ELSE LET acc == Head(x) * c + carry
         IN  <<acc % LimbBase>> \o BigMulSmall(Tail(x), c, acc \div LimbBase)

\* quotient and remainder of the limbs i..1 of x by a divisor d below 2^21
RECURSIVE BigDivSmall(_, _, _, _, _)
BigDivSmall(x, d, i, rem, q) ==
    IF i = 0 THEN [q |-> q, r |-> rem]
    ELSE LET cur == rem * LimbBase + x[i]
         IN  BigDivSmall(x, d, i - 1, cur % d, <<cur \div d>> \o q)

RECURSIVE BigInc(_)
BigInc(x) ==
    IF x = <<>> THEN <<1>>
    ELSE IF Head(x) + 1 < LimbBase THEN <<Head(x) + 1>> \o Tail(x)
    ELSE <<0>> \o BigInc(Tail(x))

RECURSIVE BigLessFrom(_, _, _)
BigLessFrom(x, y, i) ==
    IF i = 0 THEN FALSE
    ELSE IF x[i] # y[i] THEN x[i] < y[i]
    ELSE BigLessFrom(x, y, i - 1)

BigLess(x, y) ==
    LET a == BigTrim(x)
        b == BigTrim(y)
    IN  IF Len(a) # Len(b) THEN Len(a) < Len(b) ELSE BigLessFrom(a, b, Len(a))

\* x - y - borrow for x >= y
RECURSIVE BigSub(_, _, _)
BigSub(x, y, borrow) ==
    IF x = <<>> THEN <<>>
    ELSE LET d == Head(x) - (IF y = <<>> THEN 0 ELSE Head(y)) - borrow
         IN  <<d % LimbBase>>
             \o BigSub(Tail(x), IF y = <<>> THEN <<>> ELSE Tail(y), IF d < 0 THEN 1 ELSE 0)

BigShl(x, s) == [i \in 1 .. (s \div 10) |-> 0] \o BigMulSmall(x, Pow2(s % 10), 0)

\* x >> s, and whether a 1 bit was shifted out
BigShr(x, s) ==
    LET k == Min(s \div 10, Len(x))
        high == SubSeq(x, k + 1, Len(x))
        d == BigDivSmall(high, Pow2(s % 10), Len(high), 0, <<>>)
    IN  [q |-> d.q, sticky |-> d.r # 0 \/ \E i \in 1 .. k : x[i] # 0]

\* a positive float is m * 2^e with 2^52 <= m < 2^53.  The float nearest to
\* (x + f) * 2^e, where 0 < f < 1 if sticky and f = 0 otherwise; with sticky
\* x has more than 54 bits
FloatRound(x, e, sticky) ==
    LET nb == BigBits(x)
        s == nb - 53
    IN  IF s <= 0 THEN [m |-> BigTrim(BigShl(x, -s)), e |-> e + s]
        ELSE LET g == BigShr(x, s - 1)
                 q == BigShr(g.q, 1).q
                 up == g.q[1] % 2 = 1 /\ (g.sticky \/ sticky \/ q[1] % 2 = 1)
                 r == IF up THEN BigInc(q) ELSE q
             IN  IF BigBits(r) > 53
                 THEN [m |-> BigTrim(BigShr(r, 1).q), e |-> e + s + 1]
                 ELSE [m |-> BigTrim(r), e |-> e + s]

\* the float literal <p>e-<d>: the float nearest to p / 10^d
FloatOfDecimal(p, d) ==
    LET x == BigShl(BigOfNat(p), 80)
        qr == BigDivSmall(x, 5 ^ d, Len(x), 0, <<>>)
    IN  FloatRound(qr.q, (-80) - d, qr.r # 0)

\* c * f for an int c whose odd part is below 2^21
FloatMulInt(c, f) ==
    LET k == TwoAdic(c)
    IN  FloatRound(BigMulSmall(f.m, c \div Pow2(k), 0), f.e + k, FALSE)

\* the next n bits, most significant first, of the quotient of rem by d
\* (rem < d), and the remainder left
RECURSIVE DivBits(_, _, _)
DivBits(rem, d, n) ==
    IF n = 0 THEN [bits |-> <<>>, r |-> BigTrim(rem)]
    ELSE LET r2 == BigMulSmall(rem, 2, 0)
         IN  IF BigLess(r2, d)
             THEN LET t == DivBits(r2, d, n - 1)
                  IN  [bits |-> <<0>> \o t.bits, r |-> t.r]
             ELSE LET t == DivBits(BigSub(r2, d, 0), d, n - 1)
                  IN  [bits |-> <<1>> \o t.bits, r |-> t.r]

\* the next 11 * k quotient bits, computed 11 at a time
RECURSIVE DivBlocks(_, _, _)
DivBlocks(rem, d, k) ==
    IF k = 0 THEN [bits |-> <<>>, r |-> rem]
    ELSE LET b == DivBits(rem, d, 11)
         IN  IF b.r = <<>>
             THEN [bits |-> b.bits \o [i \in 1 .. 11 * (k - 1) |-> 0], r |-> <<>>]
             ELSE LET t == DivBlocks(b.r, d, k - 1)
                  IN  [bits |-> b.bits \o t.bits, r |-> t.r]

\* the bits i..9 of limb j of the number whose bits, most significant
\* first, are bits
RECURSIVE LimbOfBits(_, _, _)
LimbOfBits(bits, j, i) ==
    LET k == Len(bits) - (10 * (j - 1) + i)
    IN  IF i = 10 \/ k < 1 THEN 0
        ELSE bits[k] * Pow2(i) + LimbOfBits(bits, j, i + 1)

BigOfBits(bits) == [j \in 1 .. ((Len(bits) + 9) \div 10) |-> LimbOfBits(bits, j, 0)]

\* a / b
FloatDiv(a, b) ==
    LET ge == ~BigLess(a.m, b.m)
        d == DivBlocks(IF ge THEN BigSub(a.m, b.m, 0) ELSE a.m, b.m, 5)
    IN  FloatRound(BigOfBits(<<IF ge THEN 1 ELSE 0>> \o d.bits), a.e - b.e - 55,
                   d.r # <<>>)

\* a < b
FloatLess(a, b) == a.e < b.e \/ (a.e = b.e /\ BigLess(a.m, b.m))

\* int(f)
FloatTrunc(f) ==
    IF f.e >= 0 THEN BigToNat(BigShl(f.m, f.e))
    ELSE BigToNat(BigTrim(BigShr(f.m, -f.e).q))

--------------------------------------------------------------------------
(* Acquisition: prepare_sampling, trigger, sample                           *)

\* artiq.language.units.ns
ns == FloatOfDecimal(1, 9)
\* MIN_PERIOD = 824*ns
MIN_PERIOD == FloatMulInt(MIN_PERIOD_NS, ns)
\* CONV_TIMEOUT_MULT = 8*ns
CONV_TIMEOUT_MULT == FloatMulInt(CONV_TIMEOUT_MULT_NS, ns)

\* the float a caller passes for a period of p nanoseconds: the product p*ns
\* or the decimal literal <p>e-9
PeriodForms == {"product", "literal"}
PeriodOf(p, form) ==
    IF form = "product" THEN FloatMulInt(p, ns) ELSE FloatOfDecimal(p, 9)

\* period < MIN_PERIOD
PeriodTooSmall(period) == FloatLess(period, MIN_PERIOD)
\* int(10 ** 9 * period)
PeriodInt(period) == FloatTrunc(FloatMulInt(10 ^ 9, period))
\* int(MIN_PERIOD / CONV_TIMEOUT_MULT)
MinPeriodQuanta == FloatTrunc(FloatDiv(MIN_PERIOD, CONV_TIMEOUT_MULT))

\* conv_timeout = int(10 ** 9 * period) // 8 - int(MIN_PERIOD / CONV_TIMEOUT_MULT)
ConvTimeout(period) == (PeriodInt(period) \div 8) - MinPeriodQuanta

\* the outcome of a call entered with the cursor at t: the exception raised,
\* the events submitted in order, the cursor and self.samples_num on return
Outcome(e, w, t, n) == [err |-> e, writes |-> w, now |-> t, samples_num |-> n]

\* prepare_sampling without the check of samples against MAX_SAMPLES
PrepareSampling_NoUpperCheck(n, p, t) ==
    IF n < 1 THEN Outcome("ValueError", <<>>, t, samples_num)
    ELSE IF PeriodTooSmall(p) THEN Outcome("ValueError", <<>>, t, samples_num)
    ELSE LET t0 == BreakRealtime(t)
             t1 == t0 + ref_period_mu
         IN  Outcome("none",
                     << RtioEvent(t0, CONV_TIMEOUT_ADDRESS, ConvTimeout(p)),
                        RtioEvent(t1, SAMPLES_ADDRESS, n) >>,
                     t1 + ref_period_mu, n)

PrepareSampling(n, p, t) ==
    IF n < 1 THEN Outcome("ValueError", <<>>, t, samples_num)
    ELSE IF n > MAX_SAMPLES THEN Outcome("ValueError", <<>>, t, samples_num)
    ELSE IF PeriodTooSmall(p) THEN Outcome("ValueError", <<>>, t, samples_num)
    ELSE LET t0 == BreakRealtime(t)
             t1 == t0 + ref_period_mu
         IN  IF RtioUnderflow(t0)
             THEN Outcome("RTIOUnderflow", <<>>, t0, samples_num)
             ELSE Outcome("none",
                          << RtioEvent(t0, CONV_TIMEOUT_ADDRESS, ConvTimeout(p)),
                             RtioEvent(t1, SAMPLES_ADDRESS, n) >>,
                          t1 + ref_period_mu, n)

Trigger(t) ==
    IF RtioUnderflow(t) THEN Outcome("RTIOUnderflow", <<>>, t, samples_num)
    ELSE Outcome("none", << RtioEvent(t, TRIGGER_ADDRESS, 1) >>,
                 t + ref_period_mu, samples_num)

\* sample with the trigger issued before the two configuration writes
Sample_TriggerFirst(n, p, t) ==
    LET b == Trigger(t)
    IN  IF b.err # "none" THEN b
        ELSE LET a == PrepareSampling(n, p, b.now)
             IN  Outcome(a.err, IF a.err = "none" THEN b.writes \o a.writes ELSE <<>>,
                         a.now, a.samples_num)

\* self.prepare_sampling(samples, period); self.trigger()
Sample(n, p, t) ==
    LET a == PrepareSampling(n, p, t)
    IN  IF a.err # "none" THEN a
        ELSE LET b == Trigger(a.now)
             IN  Outcome(b.err, a.writes \o b.writes, b.now, a.samples_num)

\* what a call did, with the timestamps of its writes counted from the
\* cursor at entry
AcqCall(op, n, p, o) ==
    [op |-> op, samples |-> n, period |-> p, err |-> o.err,
     writes |-> [i \in 1 .. Len(o.writes) |->
                    [at |-> o.writes[i].due - now,
                     target |-> o.writes[i].target,
                     data |-> o.writes[i].data]],
     advance |-> o.now - now]

\* the same with self.gains put back to the default of __init__
Apply_ResetsGains(op, n, p, o) ==
    /\ call.op = "idle"
    /\ now' = o.now
    /\ samples_num' = o.samples_num
    /\ outq' = outq \cup {o.writes[i] : i \in 1 .. Len(o.writes)}
    /\ ret' = IF o.err = "none" THEN "None" ELSE o.err
    /\ trace' = AcqCall(op, n, p, o)
    /\ calls' = calls + 1
    /\ gains' = 0
    /\ UNCHANGED <<self_samples, call, ififo, pgia, prev, pushed, popped>>

Apply(op, n, p, o) ==
    /\ call.op = "idle"
    /\ now' = o.now
    /\ samples_num' = o.samples_num
    /\ outq' = outq \cup {o.writes[i] : i \in 1 .. Len(o.writes)}
    /\ ret' = IF o.err = "none" THEN "None" ELSE o.err
    /\ trace' = AcqCall(op, n, p, o)
    /\ calls' = calls + 1
    /\ UNCHANGED <<gains, self_samples, call, ififo, pgia, prev, pushed, popped>>

CallPrepareSampling(n, p) == Apply("prepare_sampling", n, p, PrepareSampling(n, p, now))
CallTrigger == Apply("trigger", 0, 0, Trigger(now))
CallSample(n, p) == Apply("sample", n, p, Sample(n, p, now))

--------------------------------------------------------------------------
(* Read-back: _transfer_samples, get_samples                                *)

\* adc_mu_to_volt(code, gain): the voltage, kept as the pair it is made from
adc_mu_to_volt(code, gain) == <<code, gain>>

\* a = val & 0xFFFF; a = -(a & mask) + (a & ~mask), mask = 1 << 15
LowCode(val) ==
    LET a == val % Pow2(16)
        mask == Pow2(15)
    IN  -BitAnd(a, mask) + BitClear(a, mask)
\* b = (val >> 16)
HighCode(val) == val \div Pow2(16)

EmptyLists == [x \in Channels |-> <<>>]

\* the loop of get_samples over the words vals[i..], appending to the lists
\* of channel and channel + 1 and wrapping channel at 8
RECURSIVE DecodeLoop(_, _, _, _, _)
DecodeLoop(vals, i, channel, channel_data, raw_channel_data) ==
    IF i > Len(vals)
    THEN [channel |-> channel, channel_data |-> channel_data,
          raw_channel_data |-> raw_channel_data]
    ELSE LET a == LowCode(vals[i])
             b == HighCode(vals[i])
             cd == [channel_data EXCEPT
                      ![channel] = Append(@, adc_mu_to_volt(a, GainField(gains, channel))),
                      ![channel + 1] = Append(@, adc_mu_to_volt(b, GainField(gains, channel + 1)))]
             rd == [raw_channel_data EXCEPT
                      ![channel] = Append(@, a),
                      ![channel + 1] = Append(@, b)]
         IN  DecodeLoop(vals, i + 1, IF channel + 2 = 8 THEN 0 ELSE channel + 2, cd, rd)

\* entries the loop appends to channel c over n further words that are all
\* zero, entered with the channel counter at c0
ZeroWordsFor(c0, n, c) ==
    LET r == ((c \div 2) - (c0 \div 2)) % 4
    IN  IF n > r THEN ((n - r - 1) \div 4) + 1 ELSE 0

\* for val in self.samples: ... ; return channel_data, raw_channel_data
Decode(z) ==
    LET d == DecodeLoop(z.head, 1, 0, EmptyLists, EmptyLists)
    IN  [channel_data |->
            [c \in Channels |->
                ZList(d.channel_data[c], ZeroWordsFor(d.channel, z.tail, c),
                      adc_mu_to_volt(LowCode(z.fill), GainField(gains, c)))],
         raw_channel_data |->
            [c \in Channels |->
                ZList(d.raw_channel_data[c], ZeroWordsFor(d.channel, z.tail, c),
                      LowCode(z.fill))]]

ReadCall(op, pending, first, wordsRead, isDone) ==
    [op |-> op, pending |-> pending, first |-> first, words |-> wordsRead,
     done |-> isDone]

\* _transfer_samples returning without resetting self.samples_num
Finish_KeepsPending(op, buf) ==
    /\ samples_num' = samples_num
    /\ call' = [op |-> "idle"]
    /\ ret' = IF op = "get_samples" THEN Decode(buf) ELSE "None"

\* the end of _transfer_samples, and of get_samples after it
Finish(op, buf) ==
    /\ samples_num' = 0
    /\ call' = [op |-> "idle"]
    /\ ret' = IF op = "get_samples" THEN Decode(buf) ELSE "None"

\* entry of _transfer_samples (op "_transfer_samples") or of get_samples:
\* range(self.samples_num*4) is fixed here; with nothing pending the call
\* returns at once
BeginTransfer(op) ==
    /\ call.op = "idle"
    /\ trace' = ReadCall(op, samples_num, popped, <<>>, samples_num = 0)
    /\ IF samples_num = 0
       THEN Finish(op, self_samples)
       ELSE /\ call' = [op |-> op, idx |-> 0, n |-> samples_num * 4]
            /\ UNCHANGED <<samples_num, ret>>
    /\ calls' = calls + 1
    /\ UNCHANGED <<gains, self_samples, now, outq, ififo, pgia, prev, pushed, popped>>

\* self._store(idx, rtio_input_data(self.burst_channel)): blocks until the
\* FIFO holds a word; after the last index the call returns
TransferWord ==
    /\ call.op # "idle"
    /\ call.idx < call.n
    /\ ififo # <<>>
    /\ LET val == Int32OfWord(Head(ififo))
           buf == ZStore(self_samples, call.idx, val)
           last == call.idx + 1 = call.n
       IN  /\ self_samples' = buf
           /\ ififo' = Tail(ififo)
           /\ popped' = popped + 1
           /\ trace' = [trace EXCEPT !.words = Append(@, val), !.done = last]
           /\ IF last
              THEN Finish(call.op, buf)
              ELSE /\ call' = [call EXCEPT !.idx = @ + 1]
                   /\ UNCHANGED <<samples_num, ret>>
    /\ UNCHANGED <<gains, now, outq, pgia, prev, pushed, calls>>

CallTransferSamples == BeginTransfer("_transfer_samples")
CallGetSamples == BeginTransfer("get_samples")

--------------------------------------------------------------------------
(* Initial states                                                          *)

\* rtlink.o in a cycle without a strobe, and in one with
BusIdle == [stb |-> 0, address |-> 0, payload |-> 0]
BusWord(address, payload) == [stb |-> 1, address |-> address, payload |-> payload]

HwInit(builds) ==
    /\ fsm = "idle"
    /\ trigger = 0
    /\ samples = 0
    /\ conv_timeout = 0
    /\ sample_cnt = 0
    /\ mux_cnt = 0
    /\ conv_timeout_cnt = 0
    /\ build \in builds
    /\ adc_wait = 0
    /\ adc_data = AdcFrame(0)

ObsInit ==
    /\ req_samples = 0
    /\ burst = "none"
    /\ burst_req = 0
    /\ stb_count = 0
    /\ burst_first = 0
    /\ conv_log = <<>>
    /\ wait_cycles = 0
    /\ bus = BusIdle

\* Sampler.__init__ with gains = g, and the PGIA register holding r
DrvInit(g, r) ==
    /\ gains = g
    /\ samples_num = 0
    /\ self_samples = ZList(<<>>, samples_len, 0)
    /\ call = [op |-> "idle"]
    /\ ret = "None"
    /\ now = 0
    /\ outq = {}
    /\ ififo = <<>>
    /\ pgia = r
    /\ trace = NoCall
    /\ prev = NoCall
    /\ pushed = 0
    /\ popped = 0
    /\ calls = 0

--------------------------------------------------------------------------
(* The state machine in isolation, fed register writes while it is Idle    *)

StbCap == writes_per_sample * max_samples + 1

\* (address, payload) pairs put on the bus
CountPayloads == (0 .. MaxSmallCount) \cup {max_samples_arg - 1, max_samples_arg}
TimeoutPayloads == {0, MaxTimeout}
AdcLatencies == {1, MaxAdcLatency}
BusInputs ==
    ({0} \X {1}) \cup ({1} \X TimeoutPayloads) \cup ({2} \X CountPayloads)

Accepting == fsm = "idle" /\ trigger = 1
Finishing == fsm = "read" /\ mux_cnt = writes_per_sample - 1 /\ LastSample
Converted == fsm = "acq" /\ adc_done = 1

Observe(stb, address, payload, keepLog) ==
    /\ req_samples' = IF stb = 1 /\ we(address) = 1 /\ sel(address) = 2
                      THEN payload ELSE req_samples
    /\ burst' = IF Accepting THEN "running" ELSE IF Finishing THEN "done" ELSE burst
    /\ burst_req' = IF Accepting THEN req_samples ELSE burst_req
    /\ stb_count' = IF Accepting THEN 0 ELSE Min(stb_count + i_stb, StbCap)
    /\ burst_first' = IF Accepting THEN pushed ELSE burst_first
    /\ conv_log' = IF ~keepLog THEN conv_log
                   ELSE IF Accepting THEN <<>>
                   ELSE IF Converted THEN Append(conv_log, adc_data)
                   ELSE conv_log
    /\ wait_cycles' = IF fsm = "read" THEN 0
                      ELSE IF fsm = "conv_timeout" THEN wait_cycles + 1
                      ELSE wait_cycles
    /\ bus' = IF stb = 1 THEN BusWord(address, payload) ELSE BusIdle

\* a cycle with no register write
TickQuiet ==
    /\ \E lat \in AdcLatencies :
        /\ Cycle(0, 0, 0, lat, AdcFrame(1))
        /\ Observe(0, 0, 0, FALSE)
    /\ UNCHANGED <<drvVars, rtioVars, logVars>>

\* a cycle in which rtlink.o strobes a register write; the host writes only
\* while no burst is in progress and no trigger is pending
TickWrite ==
    /\ fsm = "idle"
    /\ trigger = 0
    /\ \E w \in BusInputs, lat \in AdcLatencies :
        /\ Cycle(1, w[1], w[2], lat, AdcFrame(1))
        /\ Observe(1, w[1], w[2], FALSE)
    /\ UNCHANGED <<drvVars, rtioVars, logVars>>

InitFSM == HwInit({"verilog", "sim"}) /\ ObsInit /\ DrvInit(0, 0)
NextFSM == TickQuiet \/ TickWrite
SpecFSM == InitFSM /\ [][NextFSM]_vars
SpecFSMFair == SpecFSM /\ WF_vars(TickQuiet)

--------------------------------------------------------------------------
(* The state machine in isolation, fed register writes in any cycle        *)

\* words the machine may strobe in one behaviour
MaxBusWords == 8

Addresses == 0 .. (Pow2(o_address_width) - 1)
BusWrites ==
    ({0} \X {0, 1}) \cup ({1} \X TimeoutPayloads) \cup ({2} \X (0 .. MaxSmallCount))
        \cup ((Addresses \ {0, 1, 2}) \X {1})

\* the latency matters only in the cycle that starts a conversion
StartLatencies == IF adc_start = 1 THEN AdcLatencies ELSE {1}

\* a cycle with no register write
BusQuiet ==
    /\ pushed < MaxBusWords
    /\ \E lat \in StartLatencies :
        /\ Cycle(0, 0, 0, lat, AdcFrame(1))
        /\ Observe(0, 0, 0, FALSE)
    /\ pushed' = pushed + i_stb
    /\ UNCHANGED <<drvVars, rtioVars, trace, prev, popped, calls>>

\* a cycle in which rtlink.o strobes a write, whatever the machine is doing
BusWrite ==
    /\ pushed < MaxBusWords
    /\ \E w \in BusWrites, lat \in StartLatencies :
        /\ Cycle(1, w[1], w[2], lat, AdcFrame(1))
        /\ Observe(1, w[1], w[2], FALSE)
    /\ pushed' = pushed + i_stb
    /\ UNCHANGED <<drvVars, rtioVars, trace, prev, popped, calls>>

InitBus == HwInit({"verilog", "sim"}) /\ ObsInit /\ DrvInit(0, 0)
NextBus == BusQuiet \/ BusWrite
SpecBus == InitBus /\ [][NextBus]_vars

--------------------------------------------------------------------------
(* Gain control against an ideal PGIA shift register                       *)

\* largest gain argument tried: 0..3 are the gain settings
MaxGainArg == 4
\* gain calls in one behaviour
MaxGainCalls == 2

\* 0x0000, 0xFFFF, 0xE41B
GainSeeds == {0, 65535, 58395}

SetGain ==
    /\ calls < MaxGainCalls
    /\ \E c \in Channels, g \in 0 .. MaxGainArg : CallSetGainMu(c, g)
    /\ UNCHANGED <<hwVars, obsVars>>

GetGains ==
    /\ calls < MaxGainCalls
    /\ CallGetGainsMu
    /\ UNCHANGED <<hwVars, obsVars>>

InitGain ==
    /\ HwInit({"verilog"}) /\ ObsInit
    /\ \E g \in GainSeeds, r \in {0, 65535} : DrvInit(g, r)
NextGain == SetGain \/ GetGains
SpecGain == InitGain /\ [][NextGain]_vars

--------------------------------------------------------------------------
(* The driver against an abstract device                                   *)

\* driver calls in one behaviour
MaxCalls == 3
\* words the abstract device produces in one behaviour
MaxWords == 4
\* coarse periods the cursor may fall behind the RTIO counter while the
\* hardware has nothing to do
MaxLag == 1

SampleArgs == {0, 1, MAX_SAMPLES, MAX_SAMPLES + 1}
PeriodArgs == {PeriodOf(p, "product") : p \in {MIN_PERIOD_NS - 1, MIN_PERIOD_NS}}

\* the k-th word the abstract device produces
DeviceWord(k) == << (k * 20011) % Pow2(16), (k * 40009 + Pow2(15)) % Pow2(16) >>

\* one coarse period passes: the RTIO counter advances past the cursor and
\* the events whose timestamp it reaches leave the output queue
Elapsed(q) == {[e EXCEPT !.due = @ - ref_period_mu] : e \in {x \in q : x.due > 0}}

HostPrepare ==
    /\ calls < MaxCalls
    /\ \E n \in SampleArgs, p \in PeriodArgs : CallPrepareSampling(n, p)
    /\ UNCHANGED <<hwVars, obsVars>>

HostTrigger ==
    /\ calls < MaxCalls
    /\ CallTrigger
    /\ UNCHANGED <<hwVars, obsVars>>

HostSample ==
    /\ calls < MaxCalls
    /\ \E n \in SampleArgs, p \in PeriodArgs : CallSample(n, p)
    /\ UNCHANGED <<hwVars, obsVars>>

HostTransfer ==
    /\ calls < MaxCalls
    /\ CallTransferSamples
    /\ UNCHANGED <<hwVars, obsVars>>

HostGetSamples ==
    /\ calls < MaxCalls
    /\ CallGetSamples
    /\ UNCHANGED <<hwVars, obsVars>>

HostRead ==
    /\ TransferWord
    /\ UNCHANGED <<hwVars, obsVars>>

DevicePush ==
    /\ pushed < MaxWords
    /\ ififo' = Append(ififo, DeviceWord(pushed + 1))
    /\ pushed' = pushed + 1
    /\ UNCHANGED <<hwVars, obsVars, drvVars, now, outq, pgia, trace, prev, popped, calls>>

Elapse ==
    /\ outq # {} \/ now > -(MaxLag * ref_period_mu)
    /\ now' = now - ref_period_mu
    /\ outq' = Elapsed(outq)
    /\ UNCHANGED <<hwVars, obsVars, drvVars, ififo, pgia, logVars>>

InitHost == HwInit({"verilog"}) /\ ObsInit /\ DrvInit(58395, 58395)
NextHost ==
    \/ HostPrepare \/ HostTrigger \/ HostSample
    \/ HostTransfer \/ HostGetSamples \/ HostRead
    \/ DevicePush \/ Elapse
SpecHost == InitHost /\ [][NextHost]_vars

--------------------------------------------------------------------------
(* The driver and the gateware together                                    *)

\* driver calls in one behaviour of the whole system
MaxSysCalls == 2
\* largest sample count requested of the whole system
MaxBurst == 2
\* conversion results the serializer may deliver
MaxFrames == 2

BurstArgs == 1 .. MaxBurst
BurstPeriods == {PeriodOf(MIN_PERIOD_NS + 8 * MaxTimeout, "product")}
AdcFrames == {AdcFrame(k) : k \in 1 .. MaxFrames}

HwBusy == fsm # "idle" \/ trigger = 1 \/ adc_wait # 0 \/ outq # {}

\* one coarse period: the RTIO core presents the event whose timestamp the
\* counter has reached on rtlink.o, the gateware makes one clock cycle, a
\* strobed rtlink.i word enters the input FIFO
Tick ==
    /\ HwBusy \/ now > -(MaxLag * ref_period_mu)
    /\ LET due == {e \in outq : e.due = 0 /\ e.target \div Pow2(8) = burst_channel}
           stb == IF due = {} THEN 0 ELSE 1
           ev == IF due = {} THEN RtioEvent(0, 0, 0) ELSE CHOOSE e \in due : TRUE
           address == (ev.target % Pow2(8)) % Pow2(o_address_width)
           payload == ev.data % Pow2(o_data_width)
       IN  \E lat \in AdcLatencies, frame \in AdcFrames :
               /\ Cycle(stb, address, payload, lat, frame)
               /\ Observe(stb, address, payload, TRUE)
    /\ ififo' = IF i_stb = 1 THEN Append(ififo, i_data) ELSE ififo
    /\ pushed' = pushed + i_stb
    /\ outq' = Elapsed(outq)
    /\ now' = now - ref_period_mu
    /\ UNCHANGED <<drvVars, pgia, trace, prev, popped, calls>>

\* the driver starts a burst only when the previous one has finished and
\* its words have been drained
SysSample ==
    /\ calls < MaxSysCalls
    /\ ~HwBusy
    /\ samples_num = 0
    /\ ififo = <<>>
    /\ \E n \in BurstArgs, p \in BurstPeriods : CallSample(n, p)
    /\ UNCHANGED <<hwVars, obsVars>>

SysTransfer ==
    /\ calls < MaxSysCalls
    /\ CallTransferSamples
    /\ UNCHANGED <<hwVars, obsVars>>

SysGetSamples ==
    /\ calls < MaxSysCalls
    /\ CallGetSamples
    /\ UNCHANGED <<hwVars, obsVars>>

SysRead ==
    /\ TransferWord
    /\ UNCHANGED <<hwVars, obsVars>>

Init == HwInit({"verilog"}) /\ ObsInit /\ DrvInit(58395, 58395)
Next == SysSample \/ SysTransfer \/ SysGetSamples \/ SysRead \/ Tick
Spec == Init /\ [][Next]_vars

--------------------------------------------------------------------------
(* prepare_sampling, trigger and _transfer_samples called one by one       *)
(* against the gateware                                                    *)

\* driver calls in one behaviour
MaxStepCalls == 5

\* the machine is Idle and no trigger is latched or on its way
NoBurstAhead ==
    /\ fsm = "idle"
    /\ trigger = 0
    /\ adc_wait = 0
    /\ \A e \in outq : e.target # Target(TRIGGER_ADDRESS)

\* a request is prepared while nothing is in progress
StepPrepare ==
    /\ calls < MaxStepCalls
    /\ ~HwBusy
    /\ \E n \in BurstArgs, p \in BurstPeriods : CallPrepareSampling(n, p)
    /\ UNCHANGED <<hwVars, obsVars>>

\* a trigger is issued for a machine that is Idle and has been given a
\* SampleCount, with the cursor in the future
StepTrigger ==
    /\ calls < MaxStepCalls
    /\ NoBurstAhead
    /\ req_samples >= 1 \/ outq # {}
    /\ now > 0
    /\ CallTrigger
    /\ UNCHANGED <<hwVars, obsVars>>

\* a transfer is issued after a burst has completed
StepTransfer ==
    /\ calls < MaxStepCalls
    /\ ~HwBusy
    /\ burst = "done"
    /\ CallTransferSamples
    /\ UNCHANGED <<hwVars, obsVars>>

\* self.core.break_realtime() between two calls
StepBreakRealtime ==
    /\ call.op = "idle"
    /\ ~HwBusy
    /\ now <= 0
    /\ now' = BreakRealtime(now)
    /\ UNCHANGED <<hwVars, obsVars, drvVars, outq, ififo, pgia, logVars>>

InitSteps == Init
NextSteps ==
    \/ StepPrepare \/ StepTrigger \/ StepTransfer \/ StepBreakRealtime
    \/ SysRead \/ Tick
SpecSteps == InitSteps /\ [][NextSteps]_vars

--------------------------------------------------------------------------
(* prepare_sampling with long periods against the gateware                 *)

\* driver calls in one behaviour
MaxLatchCalls == 2
\* longest period requested, in nanoseconds
MaxLatchNs == 1000000

\* 525104 ns is the longest period whose timeout is below 2^16
LatchInputs == {MIN_PERIOD_NS, MIN_PERIOD_NS + 8, 525104, 525112, MaxLatchNs}
LatchFloat == [p \in LatchInputs |-> PeriodOf(p, "product")]

LatchPrepare ==
    /\ calls < MaxLatchCalls
    /\ ~HwBusy
    /\ \E n \in BurstArgs, p \in LatchInputs : CallPrepareSampling(n, LatchFloat[p])
    /\ UNCHANGED <<hwVars, obsVars>>

InitLatch == Init
NextLatch == LatchPrepare \/ Tick
SpecLatch == InitLatch /\ [][NextLatch]_vars

--------------------------------------------------------------------------
(* prepare_sampling over a range of periods                                *)

\* longest period tried, in nanoseconds
MaxPeriodNs == 1000

PeriodInputs == (MIN_PERIOD_NS .. MaxPeriodNs) \X PeriodForms
PeriodFloat == [x \in PeriodInputs |-> PeriodOf(x[1], x[2])]

PeriodPrepare ==
    /\ calls < 1
    /\ \E x \in PeriodInputs : CallPrepareSampling(1, PeriodFloat[x])
    /\ UNCHANGED <<hwVars, obsVars>>

InitPeriod == InitHost
NextPeriod == PeriodPrepare
SpecPeriod == InitPeriod /\ [][NextPeriod]_vars

--------------------------------------------------------------------------
(* Requests: prepare_sampling, trigger and sample over several periods     *)

\* driver calls in one behaviour
MaxRequestCalls == 2
\* longest period requested, in nanoseconds
MaxRequestNs == 1000

RequestCounts == {0, 1, MAX_SAMPLES}
RequestInputs ==
    ({MIN_PERIOD_NS - 1, MIN_PERIOD_NS, MIN_PERIOD_NS + 8, MaxRequestNs} \X {"product"})
        \cup {<<960, "literal">>}
RequestFloat == [x \in RequestInputs |-> PeriodOf(x[1], x[2])]

RequestPrepare ==
    /\ calls < MaxRequestCalls
    /\ \E n \in RequestCounts, x \in RequestInputs : CallPrepareSampling(n, RequestFloat[x])
    /\ UNCHANGED <<hwVars, obsVars>>

RequestTrigger ==
    /\ calls < MaxRequestCalls
    /\ CallTrigger
    /\ UNCHANGED <<hwVars, obsVars>>

RequestSample ==
    /\ calls < MaxRequestCalls
    /\ \E n \in RequestCounts, x \in RequestInputs : CallSample(n, RequestFloat[x])
    /\ UNCHANGED <<hwVars, obsVars>>

InitRequest == InitHost
NextRequest == RequestPrepare \/ RequestTrigger \/ RequestSample \/ Elapse
SpecRequest == InitRequest /\ [][NextRequest]_vars

--------------------------------------------------------------------------
(* Gain calls between the calls of an acquisition                          *)

\* driver calls in one behaviour
MaxShadowCalls == 3
\* words the abstract device produces in one behaviour
MaxShadowWords == 4

ShadowSetGain ==
    /\ calls < MaxShadowCalls
    /\ \E c \in {0, channels - 1} : CallSetGainMu(c, 2)
    /\ UNCHANGED <<hwVars, obsVars>>

ShadowGetGains ==
    /\ calls < MaxShadowCalls
    /\ CallGetGainsMu
    /\ UNCHANGED <<hwVars, obsVars>>

ShadowPrepare ==
    /\ calls < MaxShadowCalls
    /\ \E n \in {0, 1} : CallPrepareSampling(n, MIN_PERIOD)
    /\ UNCHANGED <<hwVars, obsVars>>

ShadowTrigger ==
    /\ calls < MaxShadowCalls
    /\ CallTrigger
    /\ UNCHANGED <<hwVars, obsVars>>

ShadowSample ==
    /\ calls < MaxShadowCalls
    /\ \E n \in {0, 1} : CallSample(n, MIN_PERIOD)
    /\ UNCHANGED <<hwVars, obsVars>>

ShadowTransfer ==
    /\ calls < MaxShadowCalls
    /\ CallTransferSamples
    /\ UNCHANGED <<hwVars, obsVars>>

ShadowGetSamples ==
    /\ calls < MaxShadowCalls
    /\ CallGetSamples
    /\ UNCHANGED <<hwVars, obsVars>>

ShadowPush ==
    /\ pushed < MaxShadowWords
    /\ ififo' = Append(ififo, DeviceWord(pushed + 1))
    /\ pushed' = pushed + 1
    /\ UNCHANGED <<hwVars, obsVars, drvVars, now, outq, pgia, trace, prev, popped, calls>>

InitShadow ==
    /\ HwInit({"verilog"}) /\ ObsInit
    /\ \E g \in {0, 58395} : DrvInit(g, 65535)
NextShadow ==
    \/ ShadowSetGain \/ ShadowGetGains
    \/ ShadowPrepare \/ ShadowTrigger \/ ShadowSample
    \/ ShadowTransfer \/ ShadowGetSamples \/ HostRead
    \/ ShadowPush \/ Elapse
SpecShadow == InitShadow /\ [][NextShadow]_vars

--------------------------------------------------------------------------
(* Claims about the state machine in isolation (SpecFSM)                   *)

\* the host asked for a SampleCount in 1..1024
ValidRequest == burst_req \in 1 .. max_samples_arg

\* C1: a trigger accepted in Idle with SampleCount n in 1..1024 makes the
\* machine strobe the output on exactly 4*n cycles and only then return to
\* Idle: while the burst runs fewer than 4*n words are out, and when it is
\* done exactly 4*n are.
C1_BurstEmitsFourWordsPerSample ==
    ValidRequest =>
        /\ burst = "running" => stb_count < writes_per_sample * burst_req
        /\ burst = "done" => stb_count = writes_per_sample * burst_req

\* the same for the counts the samples register can hold (n < 1024)
C1_BelowMaxSamples ==
    burst_req \in 1 .. (max_samples_arg - 1) =>
        /\ burst = "running" => stb_count < writes_per_sample * burst_req
        /\ burst = "done" => stb_count = writes_per_sample * burst_req

\* the same for the build whose comparison wraps at the register width
C1_WrappingBuild ==
    (build = "verilog" /\ ValidRequest) =>
        /\ burst = "running" => stb_count < writes_per_sample * burst_req
        /\ burst = "done" => stb_count = writes_per_sample * burst_req

\* C10: once a trigger with SampleCount in 1..1024 is accepted, the machine
\* eventually returns to Idle, whatever the ConversionTimeout, as long as the
\* serializer finishes every conversion.
C10_BurstTerminates ==
    (burst = "running" /\ ValidRequest) ~> (fsm = "idle")

\* the same for the counts the samples register can hold (n < 1024)
C10_BelowMaxSamples ==
    (burst = "running" /\ burst_req \in 1 .. (max_samples_arg - 1)) ~> (fsm = "idle")

--------------------------------------------------------------------------
(* Claims about the driver (SpecHost, SpecPeriod)                          *)

IsAcq(t) == t.op \in {"prepare_sampling", "sample"}
IsRead(t) == t.op \in {"_transfer_samples", "get_samples"}

\* the arguments prepare_sampling is documented to accept
ValidArgs(n, period) == n >= 1 /\ n <= MAX_SAMPLES /\ ~FloatLess(period, MIN_PERIOD)

\* consecutive writes of the last call are one coarse period apart
WritesSpaced ==
    \A i \in 1 .. (Len(trace.writes) - 1) :
        trace.writes[i + 1].at - trace.writes[i].at = ref_period_mu

\* C2: sample(n, period) with n in 1..1024 and period >= MIN_PERIOD issues
\* exactly 3 register writes, one coarse period apart, and returns with the
\* cursor exactly 3 coarse periods after its position on entry.
C2_SampleAdvancesThreePeriods ==
    (trace.op = "sample" /\ ValidArgs(trace.samples, trace.period)) =>
        /\ trace.err = "none"
        /\ Len(trace.writes) = 3
        /\ WritesSpaced
        /\ trace.advance = 3 * ref_period_mu

\* what sample does keep: 3 writes one coarse period apart, to the
\* ConversionTimeout, SampleCount and Trigger registers, and a cursor 3 coarse
\* periods after the first write
C2_ThreeWritesFromFirstWrite ==
    (trace.op = "sample" /\ ValidArgs(trace.samples, trace.period)) =>
        /\ trace.err = "none"
        /\ Len(trace.writes) = 3
        /\ WritesSpaced
        /\ trace.advance = trace.writes[1].at + 3 * ref_period_mu

\* C3: prepare_sampling (alone or from sample) with samples < 1, samples >
\* 1024 or period < MIN_PERIOD raises ValueError, submits no register write
\* and leaves the cursor, self.samples_num, self.samples, the RTIO queues
\* and the gateware registers as they were.
C3_InvalidPrepareChangesNothing ==
    [][ (calls' = calls + 1 /\ IsAcq(trace') /\ ~ValidArgs(trace'.samples, trace'.period))
            => /\ trace'.err = "ValueError"
               /\ ret' = "ValueError"
               /\ trace'.writes = <<>>
               /\ trace'.advance = 0
               /\ UNCHANGED <<now, samples_num, self_samples, outq, ififo, hwVars>> ]_vars

C3_Witness ==
    /\ trace.op = "prepare_sampling"
    /\ trace.err = "ValueError"
    /\ trace.samples > MAX_SAMPLES
    /\ samples_num = 1
    /\ outq # {}

\* C4: a transfer entered with n samples pending reads exactly 4*n words,
\* the k-th word read is the k-th word that arrived and is stored at index
\* k of self.samples, and self.samples_num is 0 on return; a transfer with
\* nothing pending reads no word.
C4_TransferDrainsPendingWords ==
    IsRead(trace) =>
        /\ Len(trace.words) <= 4 * trace.pending
        /\ \A k \in 1 .. Len(trace.words) :
              /\ trace.words[k] = Int32OfWord(DeviceWord(trace.first + k))
              /\ ZAt(self_samples, k) = trace.words[k]
        /\ popped = trace.first + Len(trace.words)
        /\ trace.done <=> Len(trace.words) = 4 * trace.pending
        /\ trace.done => samples_num = 0 /\ call.op = "idle"
        /\ ~trace.done => samples_num = trace.pending /\ call.op = trace.op

\* a second transfer after one that drained the four words of one sample
C4_Witness ==
    /\ trace.op = "_transfer_samples"
    /\ trace.done
    /\ trace.pending = 0
    /\ trace.first = 4
    /\ popped = 4
    /\ ZAt(self_samples, 4) = Int32OfWord(DeviceWord(4))

\* C5: get_samples after sample(n, period) and a full drain returns exactly
\* n voltages and n raw codes for each of the 8 channels.
C5_DecodeReturnsPendingCount ==
    (trace.op = "get_samples" /\ trace.done /\ trace.pending >= 1) =>
        \A c \in Channels :
            /\ ZLen(ret.channel_data[c]) = trace.pending
            /\ ZLen(ret.raw_channel_data[c]) = trace.pending

\* what get_samples returns instead: one entry per channel for every four
\* words of self.samples, the words no transfer wrote included
C5_DecodeReturnsWholeBuffer ==
    (trace.op = "get_samples" /\ trace.done) =>
        \A c \in Channels :
            /\ ZLen(ret.channel_data[c]) = MAX_SAMPLES
            /\ ZLen(ret.raw_channel_data[c]) = MAX_SAMPLES

\* C9: for a period of p >= 824 nanoseconds prepare_sampling accepts the
\* period and writes floor(p / 8) - floor(824 / 8) = floor(p / 8) - 103 to
\* the ConversionTimeout register, which is 0 for p = 824 and never negative.
C9_TimeoutIsFloorDifference ==
    \A x \in PeriodInputs :
        (trace.op = "prepare_sampling" /\ trace.period = PeriodFloat[x]) =>
            /\ trace.err = "none"
            /\ trace.writes[1].target = Target(CONV_TIMEOUT_ADDRESS)
            /\ trace.writes[1].data = (x[1] \div 8) - 103
            /\ trace.writes[1].data >= 0
            /\ x[1] = MIN_PERIOD_NS => trace.writes[1].data = 0

\* the same for periods written as the product p*ns
C9_ProductPeriods ==
    \A p \in MIN_PERIOD_NS .. MaxPeriodNs :
        (trace.op = "prepare_sampling" /\ trace.period = PeriodFloat[<<p, "product">>]) =>
            /\ trace.err = "none"
            /\ trace.writes[1].data = (p \div 8) - 103
            /\ trace.writes[1].data >= 0

--------------------------------------------------------------------------
(* Claims about the driver and the gateware together (Spec)                *)

\* the last call was a get_samples that has returned and whose first word
\* was the first word of the latest burst
DrainedLatestBurst ==
    /\ trace.op = "get_samples"
    /\ trace.done
    /\ trace.pending >= 1
    /\ burst # "none"
    /\ trace.first = burst_first

\* C6: for every conversion i of the burst and every channel c, the i-th raw
\* code get_samples returns for channel c is the signed 16-bit value lane c
\* of the ADC held after conversion i.
C6_DecodeMatchesMultiplexOrder ==
    DrainedLatestBurst =>
        /\ Len(conv_log) >= trace.pending
        /\ \A i \in 1 .. trace.pending : \A c \in Channels :
              /\ conv_log[i][c] \in (-Pow2(15)) .. (Pow2(15) - 1)
              /\ ZAt(ret.raw_channel_data[c], i) = conv_log[i][c]

C6_Witness ==
    /\ DrainedLatestBurst
    /\ trace.pending = 2
    /\ conv_log[1] = AdcFrame(1)
    /\ conv_log[2] = AdcFrame(2)
    /\ ZAt(ret.raw_channel_data[0], 1) = -Pow2(15)
    /\ ZAt(ret.raw_channel_data[1], 1) = Pow2(15) - 1

--------------------------------------------------------------------------
(* Claims about gain control (SpecGain)                                    *)

\* C7: set_gain_mu(c, g) with g in 0..3 followed by get_gains_mu against the
\* PGIA shift register returns a 16-bit value whose field c is g and whose
\* other seven fields are those of self.gains before the set; self.gains
\* equals the value returned.
C7_GainRoundTrip ==
    (trace.op = "get_gains_mu" /\ prev.op = "set_gain_mu" /\ prev.gain \in 0 .. 3) =>
        /\ trace.ret \in 0 .. (Pow2(16) - 1)
        /\ ret = trace.ret
        /\ GainField(trace.ret, prev.channel) = prev.gain
        /\ \A c \in Channels \ {prev.channel} :
              GainField(trace.ret, c) = GainField(prev.before, c)
        /\ gains = trace.ret

\* set_gain_mu(3, 2) on 0xFFFF, then get_gains_mu: bits 7..6 are 0b10
C7_Witness ==
    /\ trace.op = "get_gains_mu"
    /\ prev.op = "set_gain_mu"
    /\ prev.channel = 3
    /\ prev.gain = 2
    /\ prev.before = 65535
    /\ trace.ret = 65535 - 64

\* C8: set_gain_mu(c, g) with g above 3 puts g mod 4 in the field of channel
\* c and leaves the fields of all other channels unchanged, in self.gains
\* and in the word pushed to the PGIA.
C8_OutOfRangeGainIsMasked ==
    (trace.op = "set_gain_mu" /\ trace.gain > 3) =>
        /\ GainField(gains, trace.channel) = trace.gain % 4
        /\ \A c \in Channels \ {trace.channel} :
              /\ GainField(gains, c) = GainField(trace.before, c)
              /\ GainField(trace.pushed, c) = GainField(trace.before, c)

--------------------------------------------------------------------------
(* Claims about a trigger with SampleCount 0 (SpecFSM)                     *)

\* C11: a trigger accepted with SampleCount = 0 latched is a no-op: the
\* machine strobes no output word and starts no conversion, it is in Idle or
\* on its way back to it.
C11_ZeroCountTriggerIsNoOp ==
    (burst # "none" /\ burst_req = 0) =>
        /\ stb_count = 0
        /\ adc_wait = 0
        /\ fsm \in {"idle", "start_acq"}

\* what the machine does instead where the comparison wraps: a burst of
\* max_samples conversions
C11_ZeroCountRunsFullBurst ==
    (build = "verilog" /\ burst_req = 0) =>
        /\ burst = "running" => stb_count < writes_per_sample * max_samples
        /\ burst = "done" => stb_count = writes_per_sample * max_samples

--------------------------------------------------------------------------
(* Claims about the register writes of a request (SpecRequest)             *)

\* the i-th write of the last call went to register reg of the burst channel
\* with payload value
WriteIs(i, reg, value) ==
    /\ trace.writes[i].target = burst_channel * 256 + reg
    /\ trace.writes[i].data = value

\* the writes of the last call carry increasing timestamps
WritesOrdered ==
    \A i \in 1 .. (Len(trace.writes) - 1) : trace.writes[i].at < trace.writes[i + 1].at

\* C12: a request writes ConversionTimeout, SampleCount and Trigger in this
\* order, to (channel << 8) | 1, | 2 and | 0, with the computed timeout, the
\* requested count and 1; prepare_sampling alone issues the first two and
\* trigger alone the last, so no trigger precedes the configuration writes
\* of its request.
C12_WritesInRegisterOrder ==
    /\ (trace.op = "sample" /\ trace.err = "none") =>
            /\ Len(trace.writes) = 3
            /\ WriteIs(1, 1, ConvTimeout(trace.period))
            /\ WriteIs(2, 2, trace.samples)
            /\ WriteIs(3, 0, 1)
            /\ WritesOrdered
    /\ (trace.op = "prepare_sampling" /\ trace.err = "none") =>
            /\ Len(trace.writes) = 2
            /\ WriteIs(1, 1, ConvTimeout(trace.period))
            /\ WriteIs(2, 2, trace.samples)
            /\ WritesOrdered
    /\ (trace.op = "trigger" /\ trace.err = "none") =>
            /\ Len(trace.writes) = 1
            /\ WriteIs(1, 0, 1)
    /\ (trace.op \in {"sample", "prepare_sampling", "trigger"} /\ trace.err # "none") =>
            trace.writes = <<>>

\* sample(1024, 1000*ns): timeout 125 - 103 = 22
C12_Witness ==
    /\ trace.op = "sample"
    /\ trace.err = "none"
    /\ trace.samples = MAX_SAMPLES
    /\ trace.writes[1].data = 22
    /\ trace.writes[3].target = 256

--------------------------------------------------------------------------
(* Claims about the gain shadow during acquisitions (SpecShadow)           *)

IsGainCall(t) == t.op \in {"set_gain_mu", "get_gains_mu"}

\* C13: self.gains changes only in a step that is a set_gain_mu or a
\* get_gains_mu call: prepare_sampling, trigger, sample, _transfer_samples
\* and get_samples, whole or word by word, leave it as it was.
C13_OnlyGainCallsChangeShadow ==
    [][ gains' # gains => (calls' = calls + 1 /\ IsGainCall(trace')) ]_vars

\* a get_samples that drained one sample after a set_gain_mu changed the
\* shadow
C13_Witness ==
    /\ trace.op = "get_samples"
    /\ trace.done
    /\ trace.pending = 1
    /\ popped = 4
    /\ calls = 3
    /\ gains \notin {0, 58395, 65535}

--------------------------------------------------------------------------
(* Claims about the spacing of conversions (SpecFSM)                       *)

\* the machine is in the cycle that strobes the fourth word of a sample
FourthWord == fsm = "read" /\ mux_cnt = writes_per_sample - 1

\* C14: with ConversionTimeout = 0 latched no step enters conv_timeout; the
\* cycle of the fourth word is followed by Idle with the sample counter as
\* it was, or by start_acq with the sample counter one higher (in the width
\* of the register), and for a count the register can hold Idle follows
\* exactly the last of the 4*n words.
C14_ZeroTimeoutSkipsWait ==
    [][ conv_timeout = 0 =>
            /\ fsm # "conv_timeout"
            /\ fsm' # "conv_timeout"
            /\ FourthWord =>
                  /\ \/ fsm' = "idle" /\ sample_cnt' = sample_cnt
                     \/ /\ fsm' = "start_acq"
                        /\ sample_cnt' = (sample_cnt + 1) % Pow2(samples_width)
                  /\ (burst = "running" /\ burst_req \in 1 .. (max_samples_arg - 1)) =>
                        (fsm' = "idle" <=> stb_count + 1 = writes_per_sample * burst_req) ]_vars

\* the third conversion of a burst of three starts right after the eighth
\* word
C14_Witness ==
    /\ burst = "running"
    /\ burst_req = 3
    /\ conv_timeout = 0
    /\ fsm = "start_acq"
    /\ sample_cnt = 2
    /\ stb_count = 2 * writes_per_sample
    /\ wait_cycles = 0

\* C15: with ConversionTimeout = T > 0 latched the machine is in
\* conv_timeout for exactly T cycles between the fourth word of a sample that
\* is not the last and the start_acq of the next, and for none after the
\* last sample.
C15_WaitLastsTimeoutCycles ==
    /\ (burst = "running" /\ conv_timeout > 0 /\ fsm = "start_acq" /\ sample_cnt > 0) =>
            wait_cycles = conv_timeout
    /\ burst = "done" => wait_cycles = 0 /\ fsm # "conv_timeout"

\* what the machine does: T + 1 cycles
C15_WaitLastsOneCycleMore ==
    /\ (burst = "running" /\ conv_timeout > 0 /\ fsm = "start_acq" /\ sample_cnt > 0) =>
            wait_cycles = conv_timeout + 1
    /\ burst = "done" => wait_cycles = 0 /\ fsm # "conv_timeout"

--------------------------------------------------------------------------
(* Claims about register writes in any cycle (SpecBus)                     *)

\* the write of the last cycle addressed register r: a strobe, the high bit
\* of the 3-bit address clear, r in the low bits
Addressed(b, r) == b.stb = 1 /\ b.address \div 4 = 0 /\ b.address % 4 = r

\* C16: a strobed write to register 0, 1 or 2 puts its payload, cut to the
\* width of the register, in Trigger, ConversionTimeout or SampleCount and
\* leaves the other two registers as they were; ConversionTimeout and
\* SampleCount keep their value in every cycle that does not address them,
\* and in every cycle whose address has the high bit set.
C16_WriteUpdatesAddressedRegister ==
    [][ /\ Addressed(bus', 0) =>
              /\ trigger' = bus'.payload % 2
              /\ conv_timeout' = conv_timeout
              /\ samples' = samples
        /\ Addressed(bus', 1) =>
              /\ conv_timeout' = bus'.payload % Pow2(16)
              /\ samples' = samples
              /\ trigger' = trigger
        /\ Addressed(bus', 2) =>
              /\ samples' = bus'.payload % Pow2(10)
              /\ conv_timeout' = conv_timeout
              /\ trigger' = trigger
        /\ ~Addressed(bus', 1) => conv_timeout' = conv_timeout
        /\ ~Addressed(bus', 2) => samples' = samples
        /\ (bus'.stb = 1 /\ bus'.address >= 4) =>
              /\ conv_timeout' = conv_timeout
              /\ samples' = samples ]_vars

\* a write to address 6, whose low bits are those of SampleCount, arrived
\* in the middle of a burst and left both registers alone
C16_Witness ==
    /\ bus = BusWord(6, 1)
    /\ samples = 3
    /\ conv_timeout = MaxTimeout
    /\ fsm = "read"
    /\ burst = "running"

\* C18: the words a burst emits are those of the SampleCount latched when
\* the trigger was accepted, 4*n for a count n the register can hold,
\* whatever is written to SampleCount or ConversionTimeout while the burst
\* is in progress.
C18_BurstLengthFixedAtTrigger ==
    burst_req \in 1 .. (max_samples_arg - 1) =>
        /\ burst = "running" => stb_count < burst_req * writes_per_sample
        /\ burst = "done" => stb_count = burst_req * writes_per_sample

\* C20: a Trigger write that arrives while the machine is not Idle is not
\* remembered: when the machine returns to Idle no trigger is pending, so
\* every burst starts from a Trigger write that arrived in Idle.
C20_TriggerSeenOnlyInIdle ==
    [][ (fsm # "idle" /\ fsm' = "idle") => trigger' = 0 ]_vars

--------------------------------------------------------------------------
(* Claims about calls made one by one (SpecSteps)                          *)

\* C17: with every trigger issued to an Idle machine and every transfer
\* issued after the burst has completed, a transfer that has returned leaves
\* the input FIFO empty: it drained the words emitted since the transfer
\* before it.
C17_TransferLeavesFifoEmpty ==
    (trace.op = "_transfer_samples" /\ trace.done) =>
        /\ ififo = <<>>
        /\ popped = pushed

\* what holds: a transfer drains the words of one burst of the count last
\* prepared, and none when no prepare came after the transfer before it
C17_TransferDrainsOnePreparedBurst ==
    (trace.op = "_transfer_samples" /\ trace.done) =>
        /\ Len(trace.words) = 4 * trace.pending
        /\ popped = trace.first + 4 * trace.pending

--------------------------------------------------------------------------
(* Claims about the timeout the gateware latches (SpecLatch)               *)

\* the last call was a prepare_sampling that was accepted
Prepared == trace.op = "prepare_sampling" /\ trace.err = "none"

\* C19: the timeout an accepted prepare_sampling writes is in 0 .. 2^16 - 1,
\* and once its writes have reached the gateware the conv_timeout register
\* holds the value the driver computed.
C19_TimeoutFitsRegister ==
    Prepared =>
        /\ trace.writes[1].data \in 0 .. (Pow2(16) - 1)
        /\ outq = {} => conv_timeout = trace.writes[1].data

\* what the register holds: the low 16 bits of the value computed
C19_RegisterHoldsLowBits ==
    (Prepared /\ outq = {}) =>
        /\ trace.writes[1].data >= 0
        /\ conv_timeout = trace.writes[1].data % Pow2(16)
        /\ samples = trace.samples % Pow2(10)

====
